---- MODULE Spec2Model ----
(***************************************************************************)
(* dmon (src/dmon.cpp): disk-usage snapshots of a directory tree and the   *)
(* diff of two snapshots.                                                  *)
(*                                                                         *)
(* Representation.                                                         *)
(*  - A std::string is a sequence of character codes; operator< on two     *)
(*    strings is StrLess.                                                  *)
(*  - Every size is counted in blocks of BLOCK_SIZE bytes: set_path only   *)
(*    ever stores st_blocks * BLOCK_SIZE and walk only adds such values,   *)
(*    and diff only compares and subtracts sizes.  A byte count of 2^32    *)
(*    (the range of the unsigned that Writer::Uint takes) is UintRange     *)
(*    blocks, so the narrowing of a size_t byte count b*BLOCK_SIZE to      *)
(*    unsigned is exactly (b % UintRange) blocks.                          *)
(*  - A FileInfo is a record [size, path, subs, type]; sub_files_ (a       *)
(*    vector of owned pointers) is the sequence subs of owned records.     *)
(*  - A JSON value is [t |-> "obj", members], [t |-> "arr", elems],        *)
(*    [t |-> "str", s], [t |-> "num", n] or [t |-> "null"]; an object's    *)
(*    members are a sequence of [name, value] in document order.           *)
(*  - A report line (one LOG call of diff) is [path, kind, amt]: the path  *)
(*    and the size_t handed to r_sz, kind "new" / "del" / "inc" for the    *)
(*    three formats "new +", "del -" and "+".                              *)
(***************************************************************************)
EXTENDS Integers, Sequences, FiniteSets, TLC

VARIABLES
    pc,         \* position of the running command
    rc,         \* <<exit code>> of the command, <<>> while it runs
    argc,       \* cmd_diff: number of arguments
    files,      \* cmd_diff: contents of the files named by args[0], args[1]
    old_file,   \* cmd_diff: FileInfo old_file
    new_file,   \* cmd_diff: FileInfo new_file
    stack,      \* call stack of FileInfo::diff, innermost call last
    out,        \* report lines written by diff so far
    calls,      \* history: <<newer.path, older.path>> of every diff call
    fs,         \* cmd_stat: the filesystem entry named by args[0]
    depth,      \* cmd_stat: the retention depth handed to walk
    root_file,  \* cmd_stat: FileInfo root_file
    snapshot,   \* cmd_stat: the document written to the snapshot file
    readback,   \* the document a later from_json finds in the snapshot file
    loaded      \* the FileInfo that from_json fills from readback

vars == <<pc, rc, argc, files, old_file, new_file, stack, out, calls,
          fs, depth, root_file, snapshot, readback, loaded>>

diffVars == <<argc, files, old_file, new_file, stack, out, calls>>
statVars == <<fs, depth, root_file, snapshot, readback, loaded>>

(***************************************************************************)
(* Program constants                                                       *)
(***************************************************************************)
FILE_TYPE_UNKNOWN == 0
FILE_TYPE_REGULAR == 1
FILE_TYPE_DIRECTORY == 2
FILE_TYPE_LINK == 3
BLOCK_SIZE == 512
SEP == 47
\* Writer::Uint and GenericValue::GetUint carry a 32-bit unsigned
UINT_BITS == 32
\* cmd_stat calls walk(5)
STAT_DEPTH == 5

\* 2^UINT_BITS bytes, counted in blocks (2^32 itself is outside TLC's integers)
UintRange == (2^(UINT_BITS - 2) \div BLOCK_SIZE) * 4

(***************************************************************************)
(* Bounds of the model                                                     *)
(***************************************************************************)
\* child sizes of the snapshots compared by diff are 0, 50, .., 50*MaxChildSteps
MaxChildSteps == 2
\* retention depths tried by the walk are 0..MaxDepth and STAT_DEPTH
MaxDepth == 2

(***************************************************************************)
(* Strings                                                                 *)
(***************************************************************************)
RECURSIVE StrLess(_, _)
\* std::string operator<: lexicographic on the characters, a proper prefix first
StrLess(s, t) ==
    IF t = <<>> THEN FALSE
    ELSE IF s = <<>> THEN TRUE
    ELSE IF Head(s) < Head(t) THEN TRUE
    ELSE IF Head(s) > Head(t) THEN FALSE
    ELSE StrLess(Tail(s), Tail(t))

join_path(prefix, postfix) ==
    LET hasSep == prefix # <<>> /\ prefix[Len(prefix)] = SEP
    IN IF hasSep THEN prefix \o postfix ELSE prefix \o <<SEP>> \o postfix

(***************************************************************************)
(* FileInfo                                                                *)
(***************************************************************************)
\* FileInfo::FileInfo()
NewFileInfo ==
    [size |-> 0, path |-> <<>>, subs |-> <<>>, type |-> FILE_TYPE_UNKNOWN]

\* FileInfo::PathLess
PathLess(lhs, rhs) == StrLess(lhs.path, rhs.path)

RECURSIVE InsertSorted(_, _)
InsertSorted(x, s) ==
    IF s = <<>> THEN <<x>>
    ELSE IF PathLess(x, Head(s)) THEN <<x>> \o s
    ELSE <<Head(s)>> \o InsertSorted(x, Tail(s))

RECURSIVE SortedSeq(_)
\* std::sort with PathLess (the order of elements with equal paths, which
\* std::sort leaves open, is the stable one here)
SortedSeq(s) ==
    IF s = <<>> THEN <<>> ELSE InsertSorted(Head(s), SortedSeq(Tail(s)))

\* faulty variant of sort_subs: the children are left as parsed
sort_subs_Skipped(info) == info

\* FileInfo::sort_subs
sort_subs(info) == [info EXCEPT !.subs = SortedSeq(@)]

(***************************************************************************)
(* Snapshot codec: to_json, from_json                                      *)
(***************************************************************************)
JStr(s) == [t |-> "str", s |-> s]
JNum(n) == [t |-> "num", n |-> n]
JArr(elems) == [t |-> "arr", elems |-> elems]
JObj(members) == [t |-> "obj", members |-> members]
JMember(name, value) == [name |-> name, value |-> value]

\* writer.Uint(size_): the size_t is narrowed to the unsigned parameter
WriteSize(size) == JNum(size % UintRange)

RECURSIVE to_json(_)
to_json(info) ==
    JObj(<< JMember("path", JStr(info.path)),
            JMember("size", WriteSize(info.size)),
            JMember("type", JNum(info.type)) >>
         \o (IF info.subs # <<>>
             THEN << JMember("subs",
                        JArr([k \in 1..Len(info.subs) |-> to_json(info.subs[k])])) >>
             ELSE <<>>))

RECURSIVE from_json(_, _)
RECURSIVE FromMembers(_, _, _)

\* the loop over "subs" (lines 315-322): elements that fail are deleted
ParseSubs(elems) ==
    LET parsed == [k \in 1..Len(elems) |-> from_json(NewFileInfo, elems[k])]
        kept == SelectSeq(parsed, LAMBDA r : r.ok)
    IN [k \in 1..Len(kept) |-> kept[k].info]

\* one member of the object, applied to *this.  The documents read here hold
\* a string under "path" and unsigned numbers under "size" and "type"
\* (GetString and GetUint assert on any other value)
FromMember(info, m) ==
    CASE m.name = "path" -> [info EXCEPT !.path = m.value.s]
      [] m.name = "size" -> [info EXCEPT !.size = m.value.n]
      [] m.name = "type" -> [info EXCEPT !.type = m.value.n]
      [] m.name = "subs" ->
            IF m.value.t # "arr" THEN info
            ELSE sort_subs([info EXCEPT !.subs = @ \o ParseSubs(m.value.elems)])
      [] OTHER -> info

FromMembers(info, members, k) ==
    IF k > Len(members) THEN info
    ELSE FromMembers(FromMember(info, members[k]), members, k + 1)

\* bool FileInfo::from_json(const JValue &object), applied to the FileInfo info
from_json(info, object) ==
    IF object.t # "obj" THEN [ok |-> FALSE, info |-> info]
    ELSE [ok |-> TRUE, info |-> FromMembers(info, object.members, 1)]

\* bool FileInfo::from_json(const std::string &file_path): a file is
\* [kind |-> "missing"] (fopen fails), [kind |-> "garbage"] (parse error) or
\* [kind |-> "json", doc |-> the parsed document]
from_json_file(info, file) ==
    IF file.kind = "missing" THEN [ok |-> FALSE, info |-> info]
    ELSE IF file.kind = "garbage" THEN [ok |-> FALSE, info |-> info]
    ELSE from_json(info, file.doc)

(***************************************************************************)
(* The filesystem seen by set_path and walk.  An entry is                  *)
(* [name, mode, blocks, openable, ents]: mode is what lstat reports        *)
(* ("dir", "reg", "lnk", "other" for any other st_mode, "nostat" when      *)
(* lstat fails), blocks is st_blocks, openable says whether opendir        *)
(* succeeds, ents are the entries in the order readdir returns them.       *)
(***************************************************************************)
Dot == <<46>>
DotDot == <<46, 46>>
Entry(name, mode, blocks, openable, ents) ==
    [name |-> name, mode |-> mode, blocks |-> blocks,
     openable |-> openable, ents |-> ents]

\* what readdir returns for an opened directory: "." and ".." and its entries
readdir(e) ==
    <<Entry(Dot, "dir", e.blocks, TRUE, <<>>),
      Entry(DotDot, "dir", e.blocks, TRUE, <<>>)>> \o e.ents

\* FileInfo::set_path on the FileInfo info; st_blocks * BLOCK_SIZE bytes are
\* e.blocks blocks
set_path(info, path, e) ==
    LET named == [info EXCEPT !.path = path]
    IN CASE e.mode = "nostat" -> named
         [] e.mode = "dir" ->
               [named EXCEPT !.type = FILE_TYPE_DIRECTORY, !.size = e.blocks]
         [] e.mode = "reg" ->
               [named EXCEPT !.type = FILE_TYPE_REGULAR, !.size = e.blocks]
         [] e.mode = "lnk" ->
               [named EXCEPT !.type = FILE_TYPE_LINK, !.size = e.blocks]
         [] OTHER -> [named EXCEPT !.type = FILE_TYPE_UNKNOWN]

\* faulty variant of Retain: the child is put in front
Retain_Front(subs, sub_file, d) ==
    IF d > 0 THEN <<sub_file>> \o subs ELSE subs

\* if (depth > 0) sub_files_.push_back(sub_file);
Retain(subs, sub_file, d) ==
    IF d > 0 THEN Append(subs, sub_file) ELSE subs

\* faulty variant of Descends: no recursion below the retained levels
Descends_Retained(sub_file, d) ==
    sub_file.type = FILE_TYPE_DIRECTORY /\ d > 0

\* if (sub_file->type_ == FILE_TYPE_DIRECTORY) sub_file->walk(depth - 1);
Descends(sub_file, d) == sub_file.type = FILE_TYPE_DIRECTORY

RECURSIVE walk(_, _, _)
RECURSIVE WalkEntries(_, _, _, _)

\* the body of the readdir loop for the entry ent
WalkEntry(info, ent, d) ==
    IF ent.name = Dot \/ ent.name = DotDot THEN info
    ELSE LET path == join_path(info.path, ent.name)
             sub_file == set_path(NewFileInfo, path, ent)
         IN IF sub_file.type = FILE_TYPE_UNKNOWN THEN info
            ELSE LET walked == IF Descends(sub_file, d)
                               THEN walk(sub_file, ent, d - 1)
                               ELSE sub_file
                 IN [info EXCEPT !.subs = Retain(@, walked, d),
                                 !.size = @ + walked.size]

WalkEntries(info, listing, k, d) ==
    IF k > Len(listing) THEN info
    ELSE WalkEntries(WalkEntry(info, listing[k], d), listing, k + 1, d)

\* FileInfo::walk(depth) on the FileInfo info that set_path filled from e
walk(info, e, d) ==
    IF info.type # FILE_TYPE_DIRECTORY THEN info
    ELSE IF ~e.openable THEN info
    ELSE WalkEntries(info, readdir(e), 1, d)

(***************************************************************************)
(* cmd_stat, and a later from_json of the snapshot it wrote                *)
(***************************************************************************)
CmdStatUsage ==
    /\ pc = "cmd_stat" /\ argc # 1
    /\ rc' = <<0 - 1>> /\ pc' = "exit"
    /\ UNCHANGED diffVars /\ UNCHANGED statVars

\* root_file.set_path(root); root_file.walk(depth); cmd_stat itself passes
\* STAT_DEPTH, the other depths exercise walk's parameter
CmdStatWalk ==
    /\ pc = "cmd_stat" /\ argc = 1
    /\ root_file' = walk(set_path(root_file, fs.name, fs), fs, depth)
    /\ pc' = "write"
    /\ UNCHANGED <<rc, fs, depth, snapshot, readback, loaded>>
    /\ UNCHANGED diffVars

\* fopen of the output file, to_json, return
CmdStatWrite ==
    /\ pc = "write"
    /\ \E opened \in BOOLEAN :
          IF opened
          THEN snapshot' = to_json(root_file) /\ rc' = <<0>>
          ELSE snapshot' = snapshot /\ rc' = <<0 - 1>>
    /\ pc' = "exit"
    /\ UNCHANGED <<fs, depth, root_file, readback, loaded>>
    /\ UNCHANGED diffVars

\* the members of an object, rotated by r places
Rotate(s, r) ==
    [k \in 1..Len(s) |-> s[((k - 1 + r) % Len(s)) + 1]]

RECURSIVE Restyle(_, _)
\* the same snapshot as another producer may lay it out: every object's
\* members rotated by st.rot places, with an unknown member (st.extra), with
\* an explicit empty "subs" where there is none (st.empty), and every array
\* with elements that are not objects around the nodes (st.junk)
Restyle(v, st) ==
    IF v.t = "obj"
    THEN LET ms == [k \in 1..Len(v.members) |->
                        JMember(v.members[k].name, Restyle(v.members[k].value, st))]
             hasSubs == \E k \in 1..Len(ms) : ms[k].name = "subs"
             withSubs == IF st.empty /\ ~hasSubs
                         THEN Append(ms, JMember("subs", JArr(<<>>)))
                         ELSE ms
             rotated == Rotate(withSubs, st.rot)
         IN JObj(IF st.extra
                 THEN <<JMember("mtime", JNum(7))>> \o rotated
                 ELSE rotated)
    ELSE IF v.t = "arr"
    THEN JArr((IF st.junk THEN <<JNum(7)>> ELSE <<>>)
              \o [k \in 1..Len(v.elems) |-> Restyle(v.elems[k], st)]
              \o (IF st.junk THEN <<JStr(<<>>), JArr(<<>>)>> ELSE <<>>))
    ELSE v

Styles == [rot : 0..3, extra : BOOLEAN, empty : BOOLEAN, junk : BOOLEAN]

\* FileInfo f; f.from_json(<snapshot file>) on a layout of the snapshot
ReadBack ==
    /\ pc = "exit" /\ rc = <<0>> /\ snapshot.t = "obj"
    /\ \E st \in Styles :
          /\ readback' = Restyle(snapshot, st)
          /\ loaded' = from_json(NewFileInfo, Restyle(snapshot, st)).info
    /\ pc' = "read"
    /\ UNCHANGED <<rc, fs, depth, root_file, snapshot>>
    /\ UNCHANGED diffVars

(***************************************************************************)
(* FileInfo::diff, one frame of the call stack per active call             *)
(***************************************************************************)
Top == stack[Len(stack)]
Pop == SubSeq(stack, 1, Len(stack) - 1)
SetTop(f) == [stack EXCEPT ![Len(stack)] = f]

\* a call newer.diff(older) that has not executed anything yet
Frame(newer, older) ==
    [newer |-> newer, older |-> older, at |-> "entry",
     i |-> 0, j |-> 0, change_count |-> 0, last_inc |-> 0]

Line(path, kind, amt) == [path |-> path, kind |-> kind, amt |-> amt]

\* sub_files_[i] (the vector is indexed from 0)
lfile(f) == f.newer.subs[f.i + 1]
rfile(f) == f.older.subs[f.j + 1]

\* the condition of the while loop
InLoop(f) == f.i < Len(f.newer.subs) /\ f.j < Len(f.older.subs)

\* faulty variant of GuardReturns: a tie is no longer silent
GuardReturns_Strict(newer, older) == newer.size < older.size

\* if (size_ <= older.size_) return;
GuardReturns(newer, older) == newer.size <= older.size

both_dirs(newer, older) ==
    newer.type = FILE_TYPE_DIRECTORY /\ older.type = FILE_TYPE_DIRECTORY

\* if (change_count == 1 && last_inc == total_inc): no line for the parent
CausedBySubFile(change_count, last_inc, total_inc) ==
    change_count = 1 /\ last_inc = total_inc

\* the body of the trailing for loop, on the frame f
TailBody(f) ==
    [f EXCEPT !.i = @ + 1, !.last_inc = lfile(f).size]

\* faulty variant of AfterSubDiff: the older cursor is not advanced
AfterSubDiff_KeepJ(f) ==
    [f EXCEPT !.i = @ + 1, !.at = "merge",
              !.change_count = @ + (IF lfile(f).size # rfile(f).size THEN 1 ELSE 0),
              !.last_inc = IF lfile(f).size > rfile(f).size
                           THEN lfile(f).size - rfile(f).size ELSE @]

\* lines 226-231, after lfile.diff(rfile) has returned
AfterSubDiff(f) ==
    [f EXCEPT !.i = @ + 1, !.j = @ + 1, !.at = "merge",
              !.change_count = @ + (IF lfile(f).size # rfile(f).size THEN 1 ELSE 0),
              !.last_inc = IF lfile(f).size > rfile(f).size
                           THEN lfile(f).size - rfile(f).size ELSE @]

\* lines 234-239
NewBody(f) ==
    [f EXCEPT !.i = @ + 1,
              !.change_count = IF lfile(f).size > 0 THEN @ + 1 ELSE @,
              !.last_inc = IF lfile(f).size > 0 THEN lfile(f).size ELSE @]

\* lines 242-246
DelBody(f) ==
    [f EXCEPT !.j = @ + 1,
              !.change_count = IF rfile(f).size > 0 THEN @ + 1 ELSE @]

\* faulty variant of OlderOnly: older's entries left after the loop are reported too
OlderOnly_Trailing(f) ==
    /\ f.j < Len(f.older.subs)
    /\ IF f.i >= Len(f.newer.subs) THEN TRUE
       ELSE /\ lfile(f).path # rfile(f).path
            /\ ~StrLess(lfile(f).path, rfile(f).path)

\* the final else of the loop body is reached: in the loop, neither
\* lpath == rpath nor lpath < rpath
OlderOnly(f) ==
    /\ InLoop(f)
    /\ lfile(f).path # rfile(f).path
    /\ ~StrLess(lfile(f).path, rfile(f).path)

Diffing == pc = "diff" /\ stack # <<>>

DiffReturnEarly ==
    /\ Diffing /\ Top.at = "entry"
    /\ GuardReturns(Top.newer, Top.older)
    /\ stack' = Pop
    /\ UNCHANGED <<pc, rc, argc, files, old_file, new_file, out, calls>>
    /\ UNCHANGED statVars

DiffNotBothDirs ==
    /\ Diffing /\ Top.at = "entry"
    /\ ~GuardReturns(Top.newer, Top.older)
    /\ ~both_dirs(Top.newer, Top.older)
    /\ out' = Append(out, Line(Top.newer.path, "inc", Top.newer.size - Top.older.size))
    /\ stack' = Pop
    /\ UNCHANGED <<pc, rc, argc, files, old_file, new_file, calls>>
    /\ UNCHANGED statVars

DiffBothDirs ==
    /\ Diffing /\ Top.at = "entry"
    /\ ~GuardReturns(Top.newer, Top.older)
    /\ both_dirs(Top.newer, Top.older)
    /\ stack' = SetTop([Top EXCEPT !.at = "merge"])
    /\ UNCHANGED <<pc, rc, argc, files, old_file, new_file, out, calls>>
    /\ UNCHANGED statVars

\* lpath == rpath: the call lfile.diff(rfile)
MergeSame ==
    /\ Diffing /\ Top.at = "merge" /\ InLoop(Top)
    /\ lfile(Top).path = rfile(Top).path
    /\ stack' = Append(SetTop([Top EXCEPT !.at = "sub"]), Frame(lfile(Top), rfile(Top)))
    /\ calls' = Append(calls, <<lfile(Top).path, rfile(Top).path>>)
    /\ UNCHANGED <<pc, rc, argc, files, old_file, new_file, out>>
    /\ UNCHANGED statVars

\* the call has returned: i++, j++, change_count, last_inc
MergeSameDone ==
    /\ Diffing /\ Top.at = "sub"
    /\ stack' = SetTop(AfterSubDiff(Top))
    /\ UNCHANGED <<pc, rc, argc, files, old_file, new_file, out, calls>>
    /\ UNCHANGED statVars

MergeNew ==
    /\ Diffing /\ Top.at = "merge" /\ InLoop(Top)
    /\ lfile(Top).path # rfile(Top).path
    /\ StrLess(lfile(Top).path, rfile(Top).path)
    /\ out' = Append(out, Line(lfile(Top).path, "new", lfile(Top).size))
    /\ stack' = SetTop(NewBody(Top))
    /\ UNCHANGED <<pc, rc, argc, files, old_file, new_file, calls>>
    /\ UNCHANGED statVars

MergeDel ==
    /\ Diffing /\ Top.at = "merge"
    /\ OlderOnly(Top)
    /\ out' = Append(out, Line(rfile(Top).path, "del", rfile(Top).size))
    /\ stack' = SetTop(DelBody(Top))
    /\ UNCHANGED <<pc, rc, argc, files, old_file, new_file, calls>>
    /\ UNCHANGED statVars

\* for (; i < sub_files_.size(); i++)
TailNew ==
    /\ Diffing /\ Top.at = "merge" /\ ~InLoop(Top)
    /\ Top.i < Len(Top.newer.subs)
    /\ out' = Append(out, Line(lfile(Top).path, "new", lfile(Top).size))
    /\ stack' = SetTop(TailBody(Top))
    /\ UNCHANGED <<pc, rc, argc, files, old_file, new_file, calls>>
    /\ UNCHANGED statVars

\* lines 255-261 and the return
DiffSummary ==
    /\ Diffing /\ Top.at = "merge" /\ ~InLoop(Top)
    /\ Top.i >= Len(Top.newer.subs)
    /\ LET total_inc == Top.newer.size - Top.older.size
       IN out' = IF CausedBySubFile(Top.change_count, Top.last_inc, total_inc)
                 THEN out
                 ELSE Append(out, Line(Top.newer.path, "inc", total_inc))
    /\ stack' = Pop
    /\ UNCHANGED <<pc, rc, argc, files, old_file, new_file, calls>>
    /\ UNCHANGED statVars

DiffStep ==
    \/ DiffReturnEarly \/ DiffNotBothDirs \/ DiffBothDirs
    \/ MergeSame \/ MergeSameDone \/ MergeNew \/ MergeDel
    \/ TailNew \/ DiffSummary

(***************************************************************************)
(* cmd_diff                                                                *)
(***************************************************************************)
\* faulty variant of LoadFailed: the result of from_json is not checked
LoadFailed_Ignored(r) == FALSE

\* if (!old_file.from_json(args[0])) / if (!new_file.from_json(args[1]))
LoadFailed(r) == ~r.ok

CmdDiffUsage ==
    /\ pc = "cmd_diff" /\ argc # 2
    /\ rc' = <<0 - 1>> /\ pc' = "exit"
    /\ UNCHANGED diffVars /\ UNCHANGED statVars

CmdDiffLoadOld ==
    /\ pc = "cmd_diff" /\ argc = 2
    /\ LET r == from_json_file(old_file, files[1])
       IN /\ old_file' = r.info
          /\ IF LoadFailed(r)
             THEN rc' = <<0 - 1>> /\ pc' = "exit"
             ELSE rc' = rc /\ pc' = "load_new"
    /\ UNCHANGED <<argc, files, new_file, stack, out, calls>>
    /\ UNCHANGED statVars

CmdDiffLoadNew ==
    /\ pc = "load_new"
    /\ LET r == from_json_file(new_file, files[2])
       IN /\ new_file' = r.info
          /\ IF LoadFailed(r)
             THEN rc' = <<0 - 1>> /\ pc' = "exit"
             ELSE rc' = rc /\ pc' = "compare"
    /\ UNCHANGED <<argc, files, old_file, stack, out, calls>>
    /\ UNCHANGED statVars

\* new_file.diff(old_file);
CmdDiffCompare ==
    /\ pc = "compare"
    /\ stack' = <<Frame(new_file, old_file)>>
    /\ calls' = Append(calls, <<new_file.path, old_file.path>>)
    /\ pc' = "diff"
    /\ UNCHANGED <<rc, argc, files, old_file, new_file, out>>
    /\ UNCHANGED statVars

\* return 0;
CmdDiffReturn ==
    /\ pc = "diff" /\ stack = <<>>
    /\ rc' = <<0>> /\ pc' = "exit"
    /\ UNCHANGED diffVars /\ UNCHANGED statVars

(***************************************************************************)
(* The snapshots handed to cmd_diff                                        *)
(***************************************************************************)
RootPath == <<SEP, 114>>
NameSeq == << <<97>>, <<98>>, <<99>> >>
SubNameSeq == << <<97>>, <<98>> >>
Absent == 0 - 1
ChildSizes == {50 * k : k \in 0..MaxChildSteps}
SubChildSizes == {0, 50}
\* what a directory's size holds beyond its retained children
Rests == {0, 50}

Leaf(path, size) ==
    [size |-> size, path |-> path, subs |-> <<>>, type |-> FILE_TYPE_REGULAR]

RECURSIVE SumSizes(_)
SumSizes(s) == IF s = <<>> THEN 0 ELSE Head(s).size + SumSizes(Tail(s))

\* the regular files f keeps of names, ascending by name
Kids(path, names, f) ==
    LET idx == SelectSeq([k \in 1..Len(names) |-> k], LAMBDA k : f[k] # Absent)
    IN [n \in 1..Len(idx) |-> Leaf(join_path(path, names[idx[n]]), f[idx[n]])]

Dir(path, subs, rest) ==
    [size |-> rest + SumSizes(subs), path |-> path,
     subs |-> subs, type |-> FILE_TYPE_DIRECTORY]

\* a directory of regular files
FlatTrees ==
    {Dir(RootPath, Kids(RootPath, NameSeq, f), r) :
        f \in [1..Len(NameSeq) -> ChildSizes \cup {Absent}], r \in Rests}

\* a directory whose only child is a directory of regular files
NestedTrees ==
    {Dir(RootPath, <<Dir(join_path(RootPath, NameSeq[1]),
                         Kids(join_path(RootPath, NameSeq[1]), SubNameSeq, g), r1)>>, r2) :
        g \in [1..Len(SubNameSeq) -> SubChildSizes \cup {Absent}],
        r1 \in Rests, r2 \in Rests}

DiffTrees ==
    FlatTrees \cup NestedTrees \cup {Leaf(RootPath, s) : s \in ChildSizes}

SnapshotFiles ==
    {[kind |-> "json", doc |-> to_json(t)] : t \in DiffTrees}
    \cup {[kind |-> "missing"], [kind |-> "garbage"],
          [kind |-> "json", doc |-> JArr(<<>>)]}

NoFs == [name |-> <<>>]

Init ==
    /\ pc = "cmd_diff" /\ rc = <<>>
    /\ argc \in 1..3
    /\ files \in IF argc = 2 THEN SnapshotFiles \X SnapshotFiles
                 ELSE {<<[kind |-> "missing"], [kind |-> "missing"]>>}
    /\ old_file = NewFileInfo /\ new_file = NewFileInfo
    /\ stack = <<>> /\ out = <<>> /\ calls = <<>>
    /\ fs = NoFs /\ depth = 0 /\ root_file = NewFileInfo
    /\ snapshot = [t |-> "null"] /\ readback = [t |-> "null"]
    /\ loaded = NewFileInfo

Next ==
    \/ CmdDiffUsage \/ CmdDiffLoadOld \/ CmdDiffLoadNew
    \/ CmdDiffCompare \/ CmdDiffReturn
    \/ DiffStep

Spec == Init /\ [][Next]_vars

(***************************************************************************)
(* The filesystems handed to cmd_stat                                      *)
(***************************************************************************)
\* st_blocks of the files: 4 KiB, and 4 GiB + 4 KiB
FileBlocks == {8, UintRange + 8}

File(name, mode, blocks) == Entry(name, mode, blocks, FALSE, <<>>)

\* the entries of a subdirectory, under one name
LowEntries(name) ==
    {File(name, "reg", 8), File(name, "other", 8)}

\* the listings of two names: none, either, or both in either order
Listings(E1, E2) ==
    {<<>>} \cup {<<x>> : x \in E1 \cup E2}
    \cup {<<x, y>> : x \in E1, y \in E2} \cup {<<y, x>> : x \in E1, y \in E2}

\* the entries of the root directory, under one name
TopEntries(name) ==
    {File(name, "reg", b) : b \in FileBlocks}
    \cup {File(name, "lnk", 0), File(name, "other", 8), File(name, "nostat", 0)}
    \cup {Entry(name, "dir", 8, TRUE, l) :
             l \in Listings(LowEntries(NameSeq[1]), LowEntries(NameSeq[2]))}
    \cup {Entry(name, "dir", 8, FALSE, <<File(NameSeq[1], "reg", 8)>>)}

Roots ==
    {Entry(RootPath, "dir", 8, TRUE, l) :
        l \in Listings(TopEntries(NameSeq[1]), TopEntries(NameSeq[2]))}
    \cup {Entry(RootPath \o <<SEP>>, "dir", 8, TRUE, l) :
        l \in Listings(LowEntries(NameSeq[1]), LowEntries(NameSeq[2]))}
    \cup {File(RootPath, "reg", 8), File(RootPath, "nostat", 0)}

Depths == (0..MaxDepth) \cup {STAT_DEPTH}

InitStat ==
    /\ pc = "cmd_stat" /\ rc = <<>>
    /\ argc \in 1..2
    /\ fs \in IF argc = 1 THEN Roots ELSE {File(RootPath, "reg", 8)}
    /\ depth \in IF argc = 1 THEN Depths ELSE {STAT_DEPTH}
    /\ root_file = NewFileInfo
    /\ snapshot = [t |-> "null"] /\ readback = [t |-> "null"]
    /\ loaded = NewFileInfo
    /\ files = <<[kind |-> "missing"], [kind |-> "missing"]>>
    /\ old_file = NewFileInfo /\ new_file = NewFileInfo
    /\ stack = <<>> /\ out = <<>> /\ calls = <<>>

NextStat == CmdStatUsage \/ CmdStatWalk \/ CmdStatWrite \/ ReadBack

SpecStat == InitStat /\ [][NextStat]_vars

(***************************************************************************)
(* Claims about diff and cmd_diff.  The definitions below describe the     *)
(* two trees directly and do not use the operators of the diff machine.    *)
(***************************************************************************)
KidPaths(n) == {n.subs[k].path : k \in 1..Len(n.subs)}
Kid(n, p) == n.subs[CHOOSE k \in 1..Len(n.subs) : n.subs[k].path = p]
IsDir(n) == n.type = FILE_TYPE_DIRECTORY
Common(n, o) == KidPaths(n) \cap KidPaths(o)
NewerOnly(n, o) == KidPaths(n) \ KidPaths(o)
OlderOnlyPaths(n, o) == KidPaths(o) \ KidPaths(n)
StrictlyAscending(s) ==
    \A k \in 1..(Len(s) - 1) : StrLess(s[k].path, s[k + 1].path)

RECURSIVE TreePaths(_)
TreePaths(n) == {n.path} \cup UNION {TreePaths(n.subs[k]) : k \in 1..Len(n.subs)}

RECURSIVE CalledPairs(_, _)
\* the pairs diff is called on, starting from newer.diff(older)
CalledPairs(n, o) ==
    {<<n, o>>} \cup
    (IF n.size > o.size /\ IsDir(n) /\ IsDir(o)
     THEN UNION {CalledPairs(Kid(n, p), Kid(o, p)) : p \in Common(n, o)}
     ELSE {})

\* the called pairs of directories that pass the guard: their children are merged
MergedPairs(n, o) ==
    {pr \in CalledPairs(n, o) :
        pr[1].size > pr[2].size /\ IsDir(pr[1]) /\ IsDir(pr[2])}

LinesAt(p, kind) == {k \in 1..Len(out) : out[k].path = p /\ out[k].kind = kind}
LinesNaming(p) == {k \in 1..Len(out) : out[k].path = p}
CallsOn(p) == {k \in 1..Len(calls) : calls[k] = <<p, p>>}

\* an older-only child lies in the interleaved phase iff some child of newer
\* sorts after it
Interleaved(n, q) == \E p \in KidPaths(n) : StrLess(q, p)

\* the children that count as changed: a matched pair whose sizes differ, a
\* newer-only child of positive size (wherever the merge meets it), an
\* older-only child of positive size met in the interleaved phase
ChangedKids(n, o) ==
    {p \in Common(n, o) : Kid(n, p).size # Kid(o, p).size}
    \cup {p \in NewerOnly(n, o) : Kid(n, p).size > 0}
    \cup {q \in OlderOnlyPaths(n, o) : Kid(o, q).size > 0 /\ Interleaved(n, q)}

GrowthOf(n, o, p) ==
    IF p \in Common(n, o) THEN Kid(n, p).size - Kid(o, p).size
    ELSE IF p \in KidPaths(n) THEN Kid(n, p).size
    ELSE 0 - Kid(o, p).size

\* exactly one child changed and its growth is the whole growth of the pair
SingleCause(n, o) ==
    \E p \in ChangedKids(n, o) :
        /\ ChangedKids(n, o) = {p}
        /\ GrowthOf(n, o, p) = n.size - o.size

Compared == calls # <<>>
Finished == pc = "exit" /\ rc = <<0>>
FileLoads(file) == file.kind = "json" /\ file.doc.t = "obj"

\* C1: after diff(newer, older), a pair of directories that grew and whose
\* growth is that of its single changed child has no parent-level line
C1_SingleCauseSuppressed ==
    Finished =>
        \A pr \in MergedPairs(new_file, old_file) :
            SingleCause(pr[1], pr[2]) => LinesAt(pr[1].path, "inc") = {}

\* C2: after diff(newer, older), a pair of directories that grew and whose
\* growth is not that of a single changed child has exactly one parent-level
\* line, with delta newer.size - older.size
C2_ParentLineOtherwise ==
    Finished =>
        \A pr \in MergedPairs(new_file, old_file) :
            ~SingleCause(pr[1], pr[2]) =>
                /\ Cardinality(LinesAt(pr[1].path, "inc")) = 1
                /\ \A k \in LinesAt(pr[1].path, "inc") :
                       out[k].amt = pr[1].size - pr[2].size

\* C5: a pair with newer.size <= older.size is silent: no line names it or
\* anything below it, diff is called on none of its children, its call never
\* gets past the guard; identical snapshots give no line; and every
\* changed-by-amount line carries a positive delta
C5_GuardSilent ==
    /\ \A k \in 1..Len(out) : out[k].kind = "inc" => out[k].amt > 0
    /\ \A k \in 1..Len(stack) :
           stack[k].newer.size <= stack[k].older.size =>
               k = Len(stack) /\ stack[k].at = "entry"
    /\ Finished =>
           \A pr \in CalledPairs(new_file, old_file) :
               pr[1].size <= pr[2].size =>
                   /\ \A p \in TreePaths(pr[1]) \cup TreePaths(pr[2]) :
                          LinesNaming(p) = {}
                   /\ \A p \in (TreePaths(pr[1]) \cup TreePaths(pr[2])) \ {pr[1].path} :
                          CallsOn(p) = {}
    /\ (Compared /\ new_file.size <= old_file.size) => out = <<>> /\ Len(calls) = 1
    /\ (Finished /\ files[1] = files[2]) => out = <<>>

\* C5 witness: diff has finished on two directories that did not grow as a
\* whole although a common child grew and a child is new
C5_Witness ==
    /\ Finished /\ IsDir(new_file) /\ IsDir(old_file)
    /\ new_file.size <= old_file.size
    /\ NewerOnly(new_file, old_file) # {}
    /\ \E p \in Common(new_file, old_file) :
           Kid(new_file, p).size > Kid(old_file, p).size

\* C8: an older-only child that sorts after every child of newer (also when
\* newer has no child) never gets a "del" line; every "del" line names an
\* older-only child of a merged pair met while both cursors were in range
C8_TrailingOlderUnreported ==
    Finished =>
        /\ \A pr \in MergedPairs(new_file, old_file) :
               \A q \in OlderOnlyPaths(pr[1], pr[2]) :
                   ~Interleaved(pr[1], q) => LinesAt(q, "del") = {}
        /\ \A k \in 1..Len(out) :
               out[k].kind = "del" =>
                   \E pr \in MergedPairs(new_file, old_file) :
                       /\ out[k].path \in OlderOnlyPaths(pr[1], pr[2])
                       /\ Interleaved(pr[1], out[k].path)

\* C8 witness: diff has finished on two directories that grew, older has a
\* child of positive size after the end of newer's children, and another
\* older-only child was reported as deleted
C8_Witness ==
    /\ Finished /\ IsDir(new_file) /\ IsDir(old_file)
    /\ new_file.size > old_file.size
    /\ \E q \in OlderOnlyPaths(new_file, old_file) :
           /\ ~Interleaved(new_file, q)
           /\ Kid(old_file, q).size > 0
    /\ \E k \in 1..Len(out) : out[k].kind = "del"

\* C9: exit code 0 only when both snapshots loaded and diff ran on
\* (tree of args[1], tree of args[0]); when a load fails the exit code is
\* non-zero and diff is never called and writes no line; the newer snapshot
\* is not loaded unless the older one loaded
C9_Loaded(k) == from_json(NewFileInfo, files[k].doc).info

C9_LoadFailureAborts ==
    /\ rc # <<>> => pc = "exit"
    /\ rc = <<0>> =>
           /\ argc = 2 /\ FileLoads(files[1]) /\ FileLoads(files[2])
           /\ Compared
    /\ Compared =>
           /\ argc = 2 /\ FileLoads(files[1]) /\ FileLoads(files[2])
           /\ calls[1] = <<new_file.path, old_file.path>>
    /\ (pc = "compare" \/ Finished) =>
           /\ argc = 2 /\ FileLoads(files[1]) /\ FileLoads(files[2])
           /\ old_file = C9_Loaded(1) /\ new_file = C9_Loaded(2)
    /\ stack # <<>> =>
           stack[1].newer = new_file /\ stack[1].older = old_file
    /\ (pc = "exit" /\ (argc # 2 \/ ~FileLoads(files[1]) \/ ~FileLoads(files[2]))) =>
           rc = <<0 - 1>> /\ calls = <<>> /\ out = <<>> /\ stack = <<>>
    /\ (argc = 2 /\ ~FileLoads(files[1])) => new_file = NewFileInfo
    /\ ~Compared => out = <<>> /\ stack = <<>>

\* C9 witness: the older snapshot loaded, the newer one did not, and the
\* command has exited
C9_Witness ==
    /\ pc = "exit" /\ argc = 2
    /\ FileLoads(files[1]) /\ ~FileLoads(files[2])
    /\ old_file # NewFileInfo

\* C10 (a)-(c): after diff on strictly ascending children sequences, every
\* common path was handed to diff exactly once and has no "new"/"del" line,
\* every newer-only child has exactly one line, "new" with its full size, and
\* every "del" line names an older-only child
C10_Aligned ==
    Finished =>
        /\ \A pr \in MergedPairs(new_file, old_file) :
               (StrictlyAscending(pr[1].subs) /\ StrictlyAscending(pr[2].subs)) =>
                   /\ \A p \in Common(pr[1], pr[2]) :
                          /\ Cardinality(CallsOn(p)) = 1
                          /\ LinesAt(p, "new") = {} /\ LinesAt(p, "del") = {}
                   /\ \A p \in NewerOnly(pr[1], pr[2]) :
                          /\ Cardinality(LinesNaming(p)) = 1
                          /\ \A k \in LinesNaming(p) :
                                 out[k] = Line(p, "new", Kid(pr[1], p).size)
        /\ \A k \in 1..Len(out) :
               out[k].kind = "del" =>
                   \E pr \in MergedPairs(new_file, old_file) :
                       out[k].path \in OlderOnlyPaths(pr[1], pr[2])

\* C10 (d): in every step the cursors of every active call do not move back,
\* a step of the loop or of the tail advances at least one of them, and a
\* merge returns only with the newer cursor at the end of newer's children
C10_Cursors ==
    /\ \A k \in 1..Len(stack) :
           k <= Len(stack') =>
               /\ stack'[k].i >= stack[k].i /\ stack'[k].j >= stack[k].j
               /\ stack'[k].i <= Len(stack[k].newer.subs)
               /\ stack'[k].j <= Len(stack[k].older.subs)
    /\ (stack # <<>> /\ Len(stack') = Len(stack) /\ Top.at \in {"merge", "sub"}) =>
           stack'[Len(stack')].i + stack'[Len(stack')].j > Top.i + Top.j
    /\ (stack # <<>> /\ Len(stack') < Len(stack) /\ Top.at = "merge") =>
           Top.i = Len(Top.newer.subs)

\* C10: merge alignment, (a)-(d)
C10_MergeAlignment == [](C10_Aligned) /\ [][C10_Cursors]_vars

\* C10 witness: diff has finished on two directories that grew and have a
\* common child, a newer-only child and a reported older-only child
C10_Witness ==
    /\ Finished /\ IsDir(new_file) /\ IsDir(old_file)
    /\ new_file.size > old_file.size
    /\ Common(new_file, old_file) # {}
    /\ NewerOnly(new_file, old_file) # {}
    /\ \E k \in 1..Len(out) : out[k].kind = "del"

(***************************************************************************)
(* Claims about walk, to_json and from_json                                *)
(***************************************************************************)
Walked == argc = 1 /\ pc \in {"write", "exit", "read"}

\* ascending by path, equal paths allowed
SortedKids(n) ==
    \A k \in 1..(Len(n.subs) - 1) : ~StrLess(n.subs[k + 1].path, n.subs[k].path)

RECURSIVE AllSorted(_)
AllSorted(n) ==
    SortedKids(n) /\ \A k \in 1..Len(n.subs) : AllSorted(n.subs[k])

RECURSIVE SameTree(_, _)
\* the same path, size and type at every node, children matched by path
SameTree(x, y) ==
    /\ x.path = y.path /\ x.size = y.size /\ x.type = y.type
    /\ Len(x.subs) = Len(y.subs) /\ KidPaths(x) = KidPaths(y)
    /\ \A p \in KidPaths(x) : SameTree(Kid(x, p), Kid(y, p))

RECURSIVE SamePaths(_, _)
\* the same nodes by path, whatever their order
SamePaths(x, y) ==
    /\ x.path = y.path
    /\ Len(x.subs) = Len(y.subs) /\ KidPaths(x) = KidPaths(y)
    /\ \A p \in KidPaths(x) : SamePaths(Kid(x, p), Kid(y, p))

Classifiable(ent) == ent.mode \in {"dir", "reg", "lnk"}

RECURSIVE FsTotal(_)
\* the allocated blocks of an entry and of everything listable below it
FsTotal(e) ==
    IF e.mode = "dir"
    THEN e.blocks + (IF e.openable
                     THEN SumSizes([k \in 1..Len(e.ents) |-> [size |-> FsTotal(e.ents[k])]])
                     ELSE 0)
    ELSE IF e.mode \in {"reg", "lnk"} THEN e.blocks
    ELSE 0

RECURSIVE InListingOrder(_, _, _)
\* the children of info are the classifiable entries of e, in readdir order,
\* down to the retained depth d
InListingOrder(info, e, d) ==
    IF e.mode = "dir" /\ e.openable /\ d > 0
    THEN LET cls == SelectSeq(e.ents, Classifiable)
         IN /\ Len(info.subs) = Len(cls)
            /\ \A k \in 1..Len(cls) :
                   /\ info.subs[k].path = join_path(info.path, cls[k].name)
                   /\ InListingOrder(info.subs[k], cls[k], d - 1)
    ELSE info.subs = <<>>

RECURSIVE SizesAggregate(_, _)
\* info and every retained node below it carry the total of their entry
SizesAggregate(info, e) ==
    /\ info.size = FsTotal(e)
    /\ \A k \in 1..Len(info.subs) :
           \E j \in 1..Len(e.ents) :
               /\ info.subs[k].path = join_path(info.path, e.ents[j].name)
               /\ SizesAggregate(info.subs[k], e.ents[j])

\* C3: reading back what to_json wrote, in any layout, gives the same path,
\* size and type at every node of the built tree
C3_RoundTrip ==
    pc = "read" => SameTree(loaded, root_file)

C6_SizesAggregate ==
    Walked =>
        /\ SizesAggregate(root_file, fs)
        /\ depth = 0 => root_file.subs = <<>>

\* C6 witness: the walk with retention depth 0 has finished on a directory
\* that holds an unclassifiable entry and a subdirectory with a regular file
C6_Witness ==
    /\ Walked /\ depth = 0 /\ root_file.subs = <<>>
    /\ \E k \in 1..Len(fs.ents) : fs.ents[k].mode = "other"
    /\ \E k \in 1..Len(fs.ents) :
           /\ fs.ents[k].mode = "dir" /\ fs.ents[k].openable
           /\ \E j \in 1..Len(fs.ents[k].ents) : fs.ents[k].ents[j].mode = "reg"
    /\ root_file.size > fs.blocks

\* C7: after from_json, the children of every node are sorted ascending by
\* path and are exactly the object elements of the document, whatever the
\* order of the elements, the place of "subs" among the members and the
\* elements that are not objects
C7_LoadedSorted ==
    pc = "read" => AllSorted(loaded) /\ SamePaths(loaded, root_file)

\* C7 witness: from_json has read a document whose "subs" comes first among
\* the known members, after an unknown member, lists two nodes in descending
\* order and holds elements that are not objects
C7_Witness ==
    /\ pc = "read" /\ Len(root_file.subs) = 2
    /\ StrLess(root_file.subs[2].path, root_file.subs[1].path)
    /\ readback.members[1].name = "mtime"
    /\ readback.members[2].name = "subs"
    /\ readback.members[2].value.elems[1].t = "num"
    /\ Len(loaded.subs) = 2

====
